---- MODULE Spec2Model ----
(***************************************************************************)
(* Model of split_paper.py (paper2llm): find_section_boundaries and the    *)
(* slicing / clean-up part of split_paper.  Text is a sequence of          *)
(* one-character strings; an offset p (0-based, as in Python) addresses    *)
(* the character s[p + 1].                                                 *)
(***************************************************************************)
EXTENDS Integers, Sequences, FiniteSets, TLC

\* ------------------------------------------------------------------------
\* Characters and text helpers
\* ------------------------------------------------------------------------

\* Python's None for an offset.
None == 0 - 1

\* Python's None for a text (a one-element tuple that is not a character).
NoneText == <<"None">>

\* The characters of a string literal, as a sequence.
Chars(str) == [i \in 1..Len(str) |-> SubSeq(str, i, i)]

Upper == Chars("ABCDEFGHIJKLMNOPQRSTUVWXYZ")

LowerLetters == Chars("abcdefghijklmnopqrstuvwxyz")

UpperSet == {Upper[i] : i \in 1..26}

\* re.IGNORECASE: characters are compared after case folding.
Lower(c) ==
    IF c \in UpperSet
    THEN LowerLetters[CHOOSE i \in 1..26 : Upper[i] = c]
    ELSE c

\* \s
Whitespace == {" ", "\t", "\n", "\r"}

\* \d
Digits == {"0", "1", "2", "3", "4", "5", "6", "7", "8", "9"}

\* \w, used by \b
WordChars == UpperSet \cup {LowerLetters[i] : i \in 1..26} \cup Digits
             \cup {"_"}

Hash == {"#"}

SetMin(S) == CHOOSE x \in S : \A y \in S : x <= y

SetMax(S) == CHOOSE x \in S : \A y \in S : x >= y

\* Python s[a:b] for 0 <= a, with b clamped to len(s).
Slice(s, a, b) ==
    LET e == IF b > Len(s) THEN Len(s) ELSE b
    IN  IF a >= e THEN <<>> ELSE SubSeq(s, a + 1, e)

\* Offset reached after the longest run of characters of class C that
\* starts at offset p (a greedy C* ).
RECURSIVE Span(_, _, _)
Span(s, p, C) ==
    IF p < Len(s) /\ s[p + 1] \in C THEN Span(s, p + 1, C) ELSE p

\* The literal w (given in lower case) occurs at offset p, ignoring case.
HasWordAt(s, p, w) ==
    /\ p + Len(w) <= Len(s)
    /\ \A i \in 1..Len(w) : Lower(s[p + i]) = w[i]

\* Offsets at which ^ matches under re.MULTILINE.
LineStarts(s) == {0} \cup {i \in 1..Len(s) : s[i] = "\n"}

\* str.split('\n')
RECURSIVE SplitFrom(_, _, _)
SplitFrom(s, i, cur) ==
    IF i > Len(s) THEN <<cur>>
    ELSE IF s[i] = "\n" THEN <<cur>> \o SplitFrom(s, i + 1, <<>>)
    ELSE SplitFrom(s, i + 1, Append(cur, s[i]))

Split(s) == SplitFrom(s, 1, <<>>)

\* str.rfind(needle): the highest offset of an occurrence, or -1.
RFind(hay, needle) ==
    LET occ == {p \in 0..(Len(hay) - Len(needle)) :
                   \A i \in 1..Len(needle) : hay[p + i] = needle[i]}
    IN  IF occ = {} THEN 0 - 1 ELSE SetMax(occ)

\* '\n'.join(lines)
RECURSIVE JoinFrom(_, _)
JoinFrom(ls, i) ==
    IF i > Len(ls) THEN <<>>
    ELSE IF i = Len(ls) THEN ls[i]
    ELSE ls[i] \o <<"\n">> \o JoinFrom(ls, i + 1)

Join(ls) == JoinFrom(ls, 1)

\* ------------------------------------------------------------------------
\* The heading patterns.  A pattern ^#+\s+ BODY is a record: kind "word" is
\* (w1|w2|..) followed by the tail ("b" for \b, "s" for \s+, "none");
\* kind "two" is (first)\s+(second); kind "sdigit" is S\d+\.\s+ .
\* ------------------------------------------------------------------------

Word(ws, tl) == [kind |-> "word", first |-> ws, second |-> {}, tail |-> tl]

Two(ws1, ws2) == [kind |-> "two", first |-> ws1, second |-> ws2, tail |-> "none"]

ack_patterns ==
    << Word({Chars("acknowledgment"), Chars("acknowledgments")}, "b"),
       Word({Chars("acknowledgement"), Chars("acknowledgements")}, "b"),
       Two({Chars("author")}, {Chars("contributions")}),
       Word({Chars("funding")}, "none"),
       Two({Chars("impact")}, {Chars("statement")}),
       Two({Chars("broader")}, {Chars("impact")}),
       Two({Chars("societal")}, {Chars("impact")}),
       Two({Chars("ethical")}, {Chars("considerations")}) >>

appendix_patterns ==
    << Word({Chars("appendix"), Chars("appendices")}, "b"),
       Two({Chars("supplementary"), Chars("supporting")},
           {Chars("material"), Chars("materials"), Chars("information"),
            Chars("data")}),
       Word({Chars("supplemental")}, "s"),
       Word({Chars("si")}, "s"),
       [kind |-> "sdigit", first |-> {Chars("s")}, second |-> {}, tail |-> "s"],
       Word({Chars("a")}, "s"),
       Word({Chars("a.")}, "s") >>

\* The two generic patterns '^#+\s+A\s+' and '^#+\s+A\.\s+' (line 86).
IsGenericPattern(i) == i \in {6, 7}

\* What follows the last literal of a pattern, at offset e.
TailOk(s, e, tl) ==
    CASE tl = "b" -> e = Len(s) \/ s[e + 1] \notin WordChars
      [] tl = "s" -> e < Len(s) /\ s[e + 1] \in Whitespace
      [] OTHER    -> TRUE

\* The part of a pattern after ^#+\s+, at offset w.
BodyMatch(s, w, pat) ==
    CASE pat.kind = "word" ->
            \E a \in pat.first :
                HasWordAt(s, w, a) /\ TailOk(s, w + Len(a), pat.tail)
      [] pat.kind = "two" ->
            \E a \in pat.first :
                /\ HasWordAt(s, w, a)
                /\ LET v == Span(s, w + Len(a), Whitespace)
                   IN  /\ v > w + Len(a)
                       /\ \E b \in pat.second : HasWordAt(s, v, b)
      [] OTHER ->
            /\ HasWordAt(s, w, <<"s">>)
            /\ LET d == Span(s, w + 1, Digits)
               IN  /\ d > w + 1
                   /\ d < Len(s)
                   /\ s[d + 1] = "."
                   /\ TailOk(s, d + 1, "s")

\* The pattern matches with its ^ at offset p.
MatchAt(s, p, pat) ==
    LET h == Span(s, p, Hash)
        w == Span(s, h, Whitespace)
    IN  h > p /\ w > h /\ BodyMatch(s, w, pat)

\* re.search(pattern, s, re.MULTILINE | re.IGNORECASE): start of the
\* leftmost match, or None.
Search(s, pat) ==
    LET starts == {p \in LineStarts(s) : MatchAt(s, p, pat)}
    IN  IF starts = {} THEN None ELSE SetMin(starts)

\* re.match(page_marker_pattern, line, re.IGNORECASE) with
\* page_marker_pattern = '^#{3,4}\s+Page\s+\d+\s*$'
IsPageMarker(line) ==
    LET h  == Span(line, 0, Hash)
        w  == Span(line, h, Whitespace)
        v  == Span(line, w + 4, Whitespace)
        d  == Span(line, v, Digits)
        e  == Span(line, d, Whitespace)
    IN  /\ h \in {3, 4}
        /\ w > h
        /\ HasWordAt(line, w, Chars("page"))
        /\ v > w + 4
        /\ d > v
        /\ e = Len(line)

\* ------------------------------------------------------------------------
\* find_section_boundaries
\* ------------------------------------------------------------------------

\* Lines 73-77: the loop over ack_patterns; best is ack_match.start(), or
\* None while ack_match is None.
RECURSIVE AckLoop(_, _, _)
AckLoop(s, i, best) ==
    IF i > Len(ack_patterns) THEN best
    ELSE LET match == Search(s, ack_patterns[i])
         IN  IF match # None /\ (best = None \/ match < best)
             THEN AckLoop(s, i + 1, match)
             ELSE AckLoop(s, i + 1, best)

\* Lines 86-94: whether a match that improves on appendix_match is taken.
AcceptAppendix(i, match, ack) ==
    IF IsGenericPattern(i) /\ ack # None
    THEN match > ack
    ELSE TRUE

\* Lines 82-94: the loop over appendix_patterns; ack is the ack_start found
\* by the first loop.
RECURSIVE AppendixLoop(_, _, _, _)
AppendixLoop(s, i, best, ack) ==
    IF i > Len(appendix_patterns) THEN best
    ELSE LET match == Search(s, appendix_patterns[i])
         IN  IF /\ match # None
                /\ (best = None \/ match < best)
                /\ AcceptAppendix(i, match, ack)
             THEN AppendixLoop(s, i + 1, match, ack)
             ELSE AppendixLoop(s, i + 1, best, ack)

\* Lines 103-109: for i in range(len(lines) - 1, max(0, len(lines) - 5), -1);
\* i and stop are Python indexes, lines[i + 1] is Python's lines[i].
RECURSIVE MarkerLoop(_, _, _, _, _)
MarkerLoop(before, lines, i, stop, start) ==
    IF i <= stop THEN start
    ELSE IF IsPageMarker(lines[i + 1])
         THEN LET line_pos == RFind(before, lines[i + 1])
              IN  IF line_pos >= 0 THEN line_pos ELSE start
         ELSE MarkerLoop(before, lines, i - 1, stop, start)

\* Exclusive end of the range of lines 103, 117 and 139.
LoopStop(n) == IF n - 5 > 0 THEN n - 5 ELSE 0

\* Lines 99-109 (and 113-123, 137-144): the boundary after the look-back
\* for a page marker.
AdjustForPageMarker(s, start) ==
    LET before == Slice(s, 0, start)
        lines  == Split(before)
    IN  MarkerLoop(before, lines, Len(lines) - 1, LoopStop(Len(lines)), start)

\* Lines 132-145: the second loop over ack_patterns, on ack_content; the
\* first pattern that matches decides, and its page marker is looked for
\* in content[:ack_start].
RECURSIVE RerunLoop(_, _, _)
RerunLoop(s, ack_content, i) ==
    IF i > Len(ack_patterns) THEN None
    ELSE LET match == Search(ack_content, ack_patterns[i])
         IN  IF match # None
             THEN AdjustForPageMarker(s, match)
             ELSE RerunLoop(s, ack_content, i + 1)

\* A second search that is not restricted to the text before the appendix.
RerunAckWholeText(s, app) == RerunLoop(s, s, 1)

\* Lines 130-145: the new ack_start when ack_start > appendix_start.
RerunAck(s, app) == RerunLoop(s, Slice(s, 0, app), 1)

\* ------------------------------------------------------------------------
\* extract_title and the clean-up of split_paper
\* ------------------------------------------------------------------------

\* Length left after the trailing run of characters of class C is dropped
\* from the first e characters of s.
RECURSIVE SpanBack(_, _, _)
SpanBack(s, e, C) ==
    IF e > 0 /\ s[e] \in C THEN SpanBack(s, e - 1, C) ELSE e

\* A strip() that forgets the leading whitespace (str.rstrip()).
StripTrailing(x) == Slice(x, 0, SpanBack(x, Len(x), Whitespace))

\* str.strip()
Strip(x) ==
    Slice(x, Span(x, 0, Whitespace), SpanBack(x, Len(x), Whitespace))

\* Line 18: re.search('^# (.+?)$', content, re.MULTILINE); the offsets
\* where it matches.
TitleStarts(s) ==
    {p \in LineStarts(s) :
        /\ p + 3 <= Len(s)
        /\ s[p + 1] = "#"
        /\ s[p + 2] = " "
        /\ s[p + 3] # "\n"}

\* End of the line that contains offset p.
LineEnd(s, p) ==
    LET nl == {i \in (p + 1)..Len(s) : s[i] = "\n"}
    IN  IF nl = {} THEN Len(s) ELSE SetMin(nl) - 1

\* Line 23: re.search('title={([^}]*)}', content); the offsets where it
\* matches.
BibtexStarts(s) ==
    {p \in 0..Len(s) :
        /\ p + 7 <= Len(s)
        /\ \A i \in 1..7 : s[p + i] = Chars("title={")[i]
        /\ \E q \in (p + 8)..Len(s) : s[q] = "}"}

\* Lines 12-28.
extract_title(s) ==
    IF TitleStarts(s) # {}
    THEN LET p == SetMin(TitleStarts(s))
         IN  Strip(Slice(s, p + 2, LineEnd(s, p)))
    ELSE IF BibtexStarts(s) # {}
    THEN LET p == SetMin(BibtexStarts(s))
             q == SetMin({r \in (p + 8)..Len(s) : s[r] = "}"})
         IN  Strip(Slice(s, p + 7, q - 1))
    ELSE Chars("Untitled_Paper")

\* Lines 209, 211, 213: re.sub('---\s*$', '', x): the text up to the
\* leftmost '---' that only whitespace follows.
RemoveSeparator(x) ==
    LET hits == {p \in 0..(Len(x) - 3) :
                    /\ x[p + 1] = "-" /\ x[p + 2] = "-" /\ x[p + 3] = "-"
                    /\ Span(x, p + 3, Whitespace) = Len(x)}
    IN  IF hits = {} THEN x ELSE Slice(x, 0, SetMin(hits))

\* Lines 209, 211, 213.
CleanUp(x) == Strip(RemoveSeparator(x))

\* Lines 217, 219: the synthesized heading of a segment.
Header(t, label) ==
    <<"#", " ">> \o t \o Chars(" - ") \o label \o Chars("\n\n---\n\n")

\* Line 222: re.sub('^# .*$', '# ' + title, x, count=1, flags=re.MULTILINE)
SubstituteTitle(x, t) ==
    LET starts == {p \in LineStarts(x) :
                      p + 2 <= Len(x) /\ x[p + 1] = "#" /\ x[p + 2] = " "}
    IN  IF starts = {} THEN x
        ELSE LET p == SetMin(starts)
             IN  Slice(x, 0, p) \o <<"#", " ">> \o t
                 \o Slice(x, LineEnd(x, p), Len(x))

\* ------------------------------------------------------------------------
\* Input documents: up to MaxBlocks blocks joined by newlines, of which up
\* to MaxSpecial are taken from a set of special blocks and the others are
\* FillerLine.  A block is one line, except the one that is a line of '#'
\* followed by a line that begins with a Backmatter keyword.
\* ------------------------------------------------------------------------

MaxBlocks == 6

MaxSpecial == 3

FillerLine == Chars("text")

\* Headings of both categories, a page marker, and a line that contains the
\* text of the page marker.
HeadingBlocks ==
    { Chars("## Acknowledgments"),
      Chars("## Funding"),
      Chars("## Appendix"),
      Chars("## A note"),
      Chars("### Page 5"),
      Chars("x ### Page 5") }

\* Lines that are no heading by themselves: an empty line, a separator, the
\* title, a line of '#', a line that begins with a Backmatter keyword.
PlainBlocks ==
    { <<>>,
      Chars("---"),
      Chars("# Paper"),
      Chars("##"),
      Chars("Funding") }

SpecialBlocks ==
    HeadingBlocks
    \cup { <<>>, Chars("---"), Chars("# Paper"), Chars("##\nFunding") }

\* The document of n blocks whose special blocks are at the positions of P.
Document(n, P, g) ==
    Join([i \in 1..n |-> IF i \in P THEN g[i] ELSE FillerLine])

\* ------------------------------------------------------------------------
\* State
\* ------------------------------------------------------------------------

VARIABLES
    pc,                 \* the statement split_paper is at
    content,            \* the text read from the input file
    title,              \* extract_title(content)
    ack_match,          \* ack_match.start(), None when ack_match is None
    ack_start,
    appendix_match,     \* appendix_match.start(), None when it is None
    appendix_start,
    main_content,
    backmatter_content,
    appendix_content

vars == <<pc, content, title, ack_match, ack_start, appendix_match,
          appendix_start, main_content, backmatter_content, appendix_content>>

\* The state before split_paper has done anything with the text it read,
\* for the documents built from the special blocks of B.
InitWith(B) ==
    /\ pc = "extract_title"
    /\ \E n \in 1..MaxBlocks :
         \E P \in SUBSET (1..n) :
            /\ Cardinality(P) <= MaxSpecial
            /\ \E g \in [P -> B] : content = Document(n, P, g)
    /\ title = NoneText
    /\ ack_match = None
    /\ ack_start = None
    /\ appendix_match = None
    /\ appendix_start = None
    /\ main_content = NoneText
    /\ backmatter_content = NoneText
    /\ appendix_content = NoneText

Init == InitWith(SpecialBlocks)

\* Documents of headings, page markers and text only.
InitHeadings == InitWith(HeadingBlocks)

\* Documents without a heading line.
InitPlain == InitWith(PlainBlocks)

\* Line 165.
ExtractTitle ==
    /\ pc = "extract_title"
    /\ title' = extract_title(content)
    /\ pc' = "find_ack"
    /\ UNCHANGED <<content, ack_match, ack_start, appendix_match,
                   appendix_start, main_content, backmatter_content,
                   appendix_content>>

\* Lines 70-77.
FindAck ==
    /\ pc = "find_ack"
    /\ ack_match' = AckLoop(content, 1, None)
    /\ ack_start' = ack_match'
    /\ pc' = "find_appendix"
    /\ UNCHANGED <<content, title, appendix_match, appendix_start,
                   main_content, backmatter_content, appendix_content>>

\* Lines 79-94.
FindAppendix ==
    /\ pc = "find_appendix"
    /\ appendix_match' = AppendixLoop(content, 1, None, ack_start)
    /\ appendix_start' = appendix_match'
    /\ pc' = "ack_page_marker"
    /\ UNCHANGED <<content, title, ack_match, ack_start, main_content,
                   backmatter_content, appendix_content>>

\* Lines 97-109.
AckPageMarker ==
    /\ pc = "ack_page_marker"
    /\ ack_start' = IF ack_start # None
                    THEN AdjustForPageMarker(content, ack_start)
                    ELSE ack_start
    /\ pc' = "appendix_page_marker"
    /\ UNCHANGED <<content, title, ack_match, appendix_match, appendix_start,
                   main_content, backmatter_content, appendix_content>>

\* Lines 111-123.
AppendixPageMarker ==
    /\ pc = "appendix_page_marker"
    /\ appendix_start' = IF appendix_start # None
                         THEN AdjustForPageMarker(content, appendix_start)
                         ELSE appendix_start
    /\ pc' = "check_order"
    /\ UNCHANGED <<content, title, ack_match, ack_start, appendix_match,
                   main_content, backmatter_content, appendix_content>>

\* Lines 125-147: the order check, then the return to split_paper.
CheckOrder ==
    /\ pc = "check_order"
    /\ ack_start' = IF /\ ack_start # None
                       /\ appendix_start # None
                       /\ ack_start > appendix_start
                    THEN RerunAck(content, appendix_start)
                    ELSE ack_start
    /\ pc' = "split"
    /\ UNCHANGED <<content, title, ack_match, appendix_match, appendix_start,
                   main_content, backmatter_content, appendix_content>>

\* A main_content from which the appendix is not cut off.
MainNotCut(s, app) == s

\* Lines 193-195: main_content once the appendix has been cut off.
MainBeforeAppendix(s, app) ==
    IF app # None THEN Slice(s, 0, app) ELSE s

\* Lines 198-206: whether the backmatter is cut out of main_content.
TakesBackmatter(ack, app) ==
    ack # None /\ ~(app # None /\ ack > app)

\* Lines 205 and 189.
BackmatterSlice(s, ack, app) ==
    IF TakesBackmatter(ack, app)
    THEN Slice(MainBeforeAppendix(s, app), ack, Len(s))
    ELSE NoneText

\* Lines 187-206.
SplitContent ==
    /\ pc = "split"
    /\ appendix_content' = IF appendix_start # None
                           THEN Slice(content, appendix_start, Len(content))
                           ELSE NoneText
    /\ backmatter_content' = BackmatterSlice(content, ack_start, appendix_start)
    /\ main_content' =
          IF TakesBackmatter(ack_start, appendix_start)
          THEN Slice(MainBeforeAppendix(content, appendix_start), 0, ack_start)
          ELSE MainBeforeAppendix(content, appendix_start)
    /\ pc' = "clean_up"
    /\ UNCHANGED <<content, title, ack_match, ack_start, appendix_match,
                   appendix_start>>

\* Python truthiness of a text that may be None.
Truthy(x) == x # NoneText /\ x # <<>>

\* Lines 208-213.
CleanUpContent ==
    /\ pc = "clean_up"
    /\ main_content' = CleanUp(main_content)
    /\ backmatter_content' = IF Truthy(backmatter_content)
                             THEN CleanUp(backmatter_content)
                             ELSE backmatter_content
    /\ appendix_content' = IF Truthy(appendix_content)
                           THEN CleanUp(appendix_content)
                           ELSE appendix_content
    /\ pc' = "add_headers"
    /\ UNCHANGED <<content, title, ack_match, ack_start, appendix_match,
                   appendix_start>>

\* Lines 215-222.
AddHeaders ==
    /\ pc = "add_headers"
    /\ backmatter_content' =
          IF Truthy(backmatter_content)
          THEN Header(title, Chars("Backmatter")) \o backmatter_content
          ELSE backmatter_content
    /\ appendix_content' =
          IF Truthy(appendix_content)
          THEN Header(title, Chars("Appendix")) \o appendix_content
          ELSE appendix_content
    /\ main_content' = SubstituteTitle(main_content, title)
    /\ pc' = "write"
    /\ UNCHANGED <<content, title, ack_match, ack_start, appendix_match,
                   appendix_start>>

Next ==
    \/ ExtractTitle
    \/ FindAck
    \/ FindAppendix
    \/ AckPageMarker
    \/ AppendixPageMarker
    \/ CheckOrder
    \/ SplitContent
    \/ CleanUpContent
    \/ AddHeaders

Spec == Init /\ [][Next]_vars

SpecHeadings == InitHeadings /\ [][Next]_vars

SpecPlain == InitPlain /\ [][Next]_vars

\* ------------------------------------------------------------------------
\* Vocabulary of the properties
\* ------------------------------------------------------------------------

\* find_section_boundaries has returned (ack_start, appendix_start).
Returned == pc \in {"split", "clean_up", "add_headers", "write"}

\* Offsets of the lines at which some Backmatter pattern matches.
BackmatterStarts(s) ==
    {p \in LineStarts(s) :
        \E i \in 1..Len(ack_patterns) : MatchAt(s, p, ack_patterns[i])}

\* Offsets of the lines at which one of the five specific Appendix patterns
\* matches.
SpecificAppendixStarts(s) ==
    {p \in LineStarts(s) :
        \E i \in 1..Len(appendix_patterns) :
            ~IsGenericPattern(i) /\ MatchAt(s, p, appendix_patterns[i])}

\* Offsets of the lines at which a generic Appendix pattern matches.
GenericAppendixStarts(s) ==
    {p \in LineStarts(s) :
        \E i \in 1..Len(appendix_patterns) :
            IsGenericPattern(i) /\ MatchAt(s, p, appendix_patterns[i])}

\* No Backmatter and no Appendix pattern matches anywhere.
NoHeading(s) ==
    /\ BackmatterStarts(s) = {}
    /\ SpecificAppendixStarts(s) = {}
    /\ GenericAppendixStarts(s) = {}

\* Number (from 0) of the line that contains offset p.
LineNo(s, p) == Cardinality({q \in LineStarts(s) : q <= p}) - 1

\* Offset of the first character of line k (from 0).
LineStartOf(s, k) == CHOOSE q \in LineStarts(s) : LineNo(s, q) = k

\* The text of line k, without its newline.
LineText(s, k) == Slice(s, LineStartOf(s, k), LineEnd(s, LineStartOf(s, k)))

\* The page-marker lines among the w lines above line L.
MarkersAbove(s, L, w) ==
    {k \in (L - w)..(L - 1) : k >= 0 /\ IsPageMarker(LineText(s, k))}

AllWhitespace(x) == \A i \in 1..Len(x) : x[i] \in Whitespace

EndsWithSeparator(x) ==
    Len(x) >= 3 /\ SubSeq(x, Len(x) - 2, Len(x)) = Chars("---")

\* t is whitespace, or whitespace around one '---'.
IsTrailer(t) ==
    \/ AllWhitespace(t)
    \/ \E k \in 0..(Len(t) - 3) :
          /\ AllWhitespace(Slice(t, 0, k))
          /\ Slice(t, k, k + 3) = Chars("---")
          /\ AllWhitespace(Slice(t, k + 3, Len(t)))

\* m is s from offset a on, without a trailer that holds the trailing
\* separator and the trailing whitespace.
TrimmedFrom(m, s, a) ==
    /\ a + Len(m) <= Len(s)
    /\ Slice(s, a, a + Len(m)) = m
    /\ (m # <<>> => m[Len(m)] \notin Whitespace)
    /\ LET t == Slice(s, a + Len(m), Len(s))
       IN  IsTrailer(t) /\ (AllWhitespace(t) => ~EndsWithSeparator(m))

\* A text that may be None, as the text written for it.
Segment(x) == IF x = NoneText THEN <<>> ELSE x

\* Smallest element of a set of offsets, None for the empty set.
MinOrNone(S) == IF S = {} THEN None ELSE SetMin(S)

\* Start of the first match of every pattern of a list that matches.
FirstMatches(s, patterns, I) ==
    {Search(s, patterns[i]) : i \in I} \ {None}

\* ------------------------------------------------------------------------
\* Properties
\* ------------------------------------------------------------------------

\* C1: whenever find_section_boundaries returns both a backmatter offset
\* and an appendix offset, the backmatter offset is strictly less than the
\* appendix offset, also when page-marker absorption moved the boundaries.
C1_BackmatterBeforeAppendix ==
    (Returned /\ ack_start # None /\ appendix_start # None)
        => ack_start < appendix_start

\* C2: in a document where no Backmatter pattern matches, a heading matched
\* only by the generic "A " / "A. " patterns is never returned as the
\* appendix boundary: appendix_start is None.
C2_LoneGenericHeadingRejected ==
    (/\ Returned
     /\ BackmatterStarts(content) = {}
     /\ SpecificAppendixStarts(content) = {})
        => appendix_start = None

\* C3: when a page-marker line is the line immediately above the first
\* Backmatter heading, wherever that marker is (the first line of the
\* document included), the returned backmatter_start is the offset of the
\* marker line; the same for the appendix boundary.  Stated for documents
\* in which the other category has no heading, so that the order check of
\* lines 125-145 plays no part.
C3_MarkerDirectlyAbove ==
    Returned =>
        /\ (BackmatterStarts(content) # {} /\ appendix_match = None) =>
              LET L == LineNo(content, SetMin(BackmatterStarts(content)))
              IN  (L >= 1 /\ IsPageMarker(LineText(content, L - 1)))
                      => ack_start = LineStartOf(content, L - 1)
        /\ (appendix_match # None /\ BackmatterStarts(content) = {}) =>
              LET L == LineNo(content, appendix_match)
              IN  (L >= 1 /\ IsPageMarker(LineText(content, L - 1)))
                      => appendix_start = LineStartOf(content, L - 1)

\* The boundary of a heading found at offset raw is pulled back to line
\* L - 4 when that line is the only page marker among L - 4 .. L - 1.
MarkerOnFourthLineAbove(raw, start) ==
    LET L == LineNo(content, raw)
    IN  (L - 4 >= 1 /\ MarkersAbove(content, L, 4) = {L - 4})
            => start = LineStartOf(content, L - 4)

\* C4: the look-back of page-marker absorption examines lines L - 1 .. L - 4
\* for a heading on line L: a page marker on line L - 4, with none on
\* L - 1 .. L - 3, pulls the boundary back to the start of line L - 4.
\* Stated for a marker that is not the first line of the document, right
\* after each absorption step.
C4_LookbackOfFourLines ==
    /\ (pc = "appendix_page_marker" /\ ack_match # None)
           => MarkerOnFourthLineAbove(ack_match, ack_start)
    /\ (pc = "check_order" /\ appendix_match # None)
           => MarkerOnFourthLineAbove(appendix_match, appendix_start)

\* The generic matches that pass the guard: a backmatter candidate exists
\* and the match lies strictly after it.
GuardedGenericMatches(s, ack) ==
    {g \in FirstMatches(s, appendix_patterns, {6, 7}) : ack # None /\ g > ack}

\* C5: the raw backmatter candidate is the smallest start among the first
\* matches of all eight Backmatter patterns; the raw appendix candidate is
\* the smallest start among the first matches of the five specific Appendix
\* patterns and of the generic patterns that pass their guard.
C5_EarliestOccurrenceWins ==
    pc = "ack_page_marker" =>
        /\ ack_match = MinOrNone(FirstMatches(content, ack_patterns, 1..8))
        /\ appendix_match =
              MinOrNone(FirstMatches(content, appendix_patterns, 1..5)
                        \cup GuardedGenericMatches(content, ack_match))

\* C6: when the document has an Appendix heading and every Backmatter
\* heading lies after it, find_section_boundaries returns backmatter_start =
\* None and no backmatter segment is produced.
C6_AcknowledgmentsInsideAppendix ==
    (/\ Returned
     /\ appendix_match # None
     /\ \A b \in BackmatterStarts(content) : b > appendix_match)
        => /\ ack_start = None
           /\ pc = "write" => ~Truthy(backmatter_content)

\* Only the main segment is produced.
OnlyMainSegment ==
    ~Truthy(backmatter_content) /\ ~Truthy(appendix_content)

CategorySearchBefore(s, app) ==
    LET m == MinOrNone(FirstMatches(Slice(s, 0, app), ack_patterns, 1..8))
    IN  IF m = None THEN None ELSE AdjustForPageMarker(s, m)

\* C8: when the page-adjusted ack_start is greater than appendix_start, the
\* new backmatter boundary is the result of the Backmatter category search
\* (smallest first match over all patterns) on content[:appendix_start],
\* None when nothing matches there, and appendix_start is left unchanged.
C8_RerunBeforeAppendix ==
    [][(/\ pc = "check_order"
        /\ ack_start # None
        /\ appendix_start # None
        /\ ack_start > appendix_start)
          => /\ ack_start' = CategorySearchBefore(content, appendix_start)
             /\ appendix_start' = appendix_start]_vars

\* The order check has replaced a backmatter boundary found after the
\* appendix boundary.
C8_Witness ==
    /\ pc = "split"
    /\ ack_match # None
    /\ appendix_start # None
    /\ ack_match > appendix_start
    /\ ack_start = None

\* The returned offset o of a heading matched at offset raw is a valid
\* offset, starts a line, and that line is the heading line or a page marker
\* among the four lines above it.
OffsetStartsItsLine(o, raw) ==
    o # None =>
        /\ o \in 0..(Len(content) - 1)
        /\ o \in LineStarts(content)
        /\ \/ o = raw
           \/ LineNo(content, o) \in
                 MarkersAbove(content, LineNo(content, raw), 4)

\* C9: every returned offset is in [0, len(document)), is the first
\* character of a line, and that line is the matched heading line or a
\* page-marker line of the look-back window, also when the text of the
\* page marker occurs inside a nearer line.
C9_OffsetsStartLines ==
    Returned =>
        /\ OffsetStartsItsLine(ack_start, ack_match)
        /\ OffsetStartsItsLine(appendix_start, appendix_match)

\* The end of the backmatter slice.
BackmatterEnd ==
    IF appendix_start # None THEN appendix_start ELSE Len(content)

\* C10: the raw segments of split_paper (before clean-up) are main =
\* document up to the first present boundary, backmatter =
\* document[backmatter_start : appendix_start or end], appendix =
\* document[appendix_start:]; their concatenation, an absent segment
\* counting as empty, is the document; a segment whose slice is empty gets
\* no synthesized heading.
C10_SlicesPartitionDocument ==
    LET present == {ack_start, appendix_start} \ {None}
        first   == IF present = {} THEN Len(content) ELSE SetMin(present)
    IN  /\ pc = "clean_up" =>
              /\ main_content = Slice(content, 0, first)
              /\ backmatter_content =
                    IF ack_start # None
                    THEN Slice(content, ack_start, BackmatterEnd)
                    ELSE NoneText
              /\ appendix_content =
                    IF appendix_start # None
                    THEN Slice(content, appendix_start, Len(content))
                    ELSE NoneText
              /\ main_content \o Segment(backmatter_content)
                    \o Segment(appendix_content) = content
        /\ pc = "write" =>
              /\ (ack_start # None
                  /\ Slice(content, ack_start, BackmatterEnd) = <<>>)
                     => backmatter_content = <<>>
              /\ (appendix_start # None
                  /\ Slice(content, appendix_start, Len(content)) = <<>>)
                     => appendix_content = <<>>

\* A document has been cut into three non-empty segments.
C10_Witness ==
    /\ pc = "clean_up"
    /\ main_content # <<>>
    /\ Truthy(backmatter_content)
    /\ Truthy(appendix_content)

====
